---- MODULE Spec2Model ----
(***************************************************************************)
(* State-machine model of the network device manager: the device registry *)
(* shared by the listener, the liveness monitor, the poisoning tick loop   *)
(* and the UI (scanner.rs, killer.rs, ui.rs), the per-device poisoning and *)
(* restoration threads (disconnect.rs, restore.rs) and the nmap-based      *)
(* device list (network.rs).                                               *)
(***************************************************************************)
EXTENDS Integers, Sequences, FiniteSets, TLC

(***************************************************************************)
(* Bounds of the exploration.                                              *)
(***************************************************************************)
MaxTicks == 3      \* clock advances explored
MaxLoops == 2      \* poison_target threads alive at once
MaxScans == 2      \* scan_network threads spawned
MaxFrames == 2     \* inbound frames that carry an observation
MaxClicks == 3     \* button and checkbox inputs

(***************************************************************************)
(* Program constants.                                                      *)
(***************************************************************************)
IntervalSecs == 30     \* time::interval(Duration::from_secs(30))
TimeoutSecs == 60      \* last_arp_time.elapsed() > Duration::from_secs(60)
GatewayIp == 1         \* host part of the gateway address, 192.168.1.1
MacZero == 0           \* MacAddr::zero()
MacBroadcast == 255   \* MacAddr::broadcast(), ff:ff:ff:ff:ff:ff

(***************************************************************************)
(* Option<T>: None is the empty tuple, Some(x) the one-element tuple.      *)
(***************************************************************************)
None == << >>
Some(x) == << x >>
IsSome(o) == o # None
Unwrap(o) == o[1]

(***************************************************************************)
(* Addresses.  A MacAddr and an Ipv4Addr are small integers (an Ipv4Addr   *)
(* is its offset from 192.168.1.0, so that 0..255 is the interface's /24   *)
(* network).  Their string forms are tagged pairs, so that a MAC string,   *)
(* an IP string and a parsed IpAddr key are three different values.        *)
(***************************************************************************)
\* The hosts on the segment: the gateway and one other host.
Gateway == [mac |-> 11, ip |-> GatewayIp]
Host == [mac |-> 12, ip |-> 5]
HostMacs == {Gateway.mac, Host.mac}
\* The (hardware address, IPv4 address) pairs inbound frames carry: the
\* gateway at its own address and, answering for the host, at the host's;
\* the host at its address.
Observable == { << Gateway.mac, Gateway.ip >>, << Gateway.mac, Host.ip >>,
                << Host.mac, Host.ip >> }

MacToString(mac) == << "mac", mac >>
IpToString(ip) == << "ip", ip >>
ParseIpv4(s) == IF s[1] = "ip" THEN Some(s[2]) ELSE None
ParseMac(s) == IF s[1] = "mac" THEN Some(s[2]) ELSE None
\* device.ip_address.parse() as the registry key of ui.rs (an IpAddr)
ParseIpKey(s) == IF s[1] = "ip" THEN Some(<< "addr", s[2] >>) ELSE None

(***************************************************************************)
(* NetworkInterface: hardware address and first IPv4 address, both         *)
(* optional, and the prefix length of that address's network.              *)
(***************************************************************************)
Interfaces ==
    { [mac |-> Some(10), ipv4 |-> Some(10), prefix |-> 24],
      [mac |-> Some(10), ipv4 |-> None, prefix |-> 24] }

Statuses == {"Active", "Inactive", "Blocked", "Unknown"}

VARIABLES
    devices,             \* the registry: key -> NetworkDevice
    now,                 \* Instant::now(), in seconds
    device_channel,      \* new-device events in flight from listener to UI
    emitted,             \* history: events sent so far, per mac_address string
    selected_interface,  \* Option<NetworkInterface> chosen in the UI
    scanner,             \* position of the scanner task started by the UI
    error,               \* the UI's error state
    sent,                \* frames put on the wire by the step just taken
    loops,               \* poison_target threads: descriptor -> how many
    net,                 \* network.rs: device list, network info, scanning flag, scan threads
    inputs,              \* history: observations and UI inputs consumed so far
    commands,            \* ScanCommands in flight from the UI to the scanner task
    last,                \* history: the observation just made, if any
    render,              \* the UI thread: where it is, and the registry guards it holds
    killer               \* position of the task that runs Killer::start

vars == << devices, now, device_channel, emitted, selected_interface, scanner,
           error, sent, loops, net, inputs, commands, last, render, killer >>

\* last records an observation the listener has just made (the key it looked
\* up, the address observed, whether it created the record, and the status
\* the record had before), a restoration the UI has just made (the keys
\* restored) or the writes a tick of the liveness monitor has just made.
\* Every other step resets it.
Other == [op |-> "other", key |-> None, ip |-> 0, created |-> FALSE,
          prior |-> "None"]

\* A variant that C19 is tested against: the tasks run only while the
\* scanner waits for a command.
TasksRunningWhenIdle == {"idle"}

\* Positions of the scanner task at which the listener and the liveness
\* monitor, spawned once the channel is open, are running.
TasksRunning == {"probing", "idle", "probe_failed", "sweeping", "scan_failed",
                 "panicked"}

Insert(map, key, value) ==
    [k \in (DOMAIN map) \cup {key} |-> IF k = key THEN value ELSE map[k]]

(***************************************************************************)
(* The listener: NetworkScanner::on_packet_arrival.                        *)
(***************************************************************************)
\* What rx.next() can deliver.
RxResults ==
    { [ok |-> TRUE, len_ok |-> TRUE, ethertype |-> e, source |-> a[1],
       payload_ok |-> TRUE, ip |-> a[2]] :
         e \in {"Arp", "Ipv4"}, a \in Observable }
    \cup
    { [ok |-> TRUE, len_ok |-> TRUE, ethertype |-> "Arp", source |-> Host.mac,
       payload_ok |-> FALSE, ip |-> Host.ip],
      [ok |-> TRUE, len_ok |-> TRUE, ethertype |-> "Ipv6", source |-> Host.mac,
       payload_ok |-> TRUE, ip |-> Host.ip],
      [ok |-> TRUE, len_ok |-> FALSE, ethertype |-> "Arp", source |-> Host.mac,
       payload_ok |-> FALSE, ip |-> Host.ip],
      [ok |-> FALSE, len_ok |-> FALSE, ethertype |-> "Arp", source |-> Host.mac,
       payload_ok |-> FALSE, ip |-> Host.ip] }

\* A variant that C24 is tested against: the source address is read off the
\* frame whatever its ethertype and however short its payload.
SourceIpUnchecked(rx) ==
    IF ~rx.ok \/ ~rx.len_ok THEN None ELSE Some(rx.ip)

\* The source address the listener reads off a frame, if any.
SourceIp(rx) ==
    IF ~rx.ok \/ ~rx.len_ok THEN None
    ELSE IF rx.ethertype \in {"Ipv4", "Arp"}
         THEN (IF rx.payload_ok THEN Some(rx.ip) ELSE None)
         ELSE None

\* Variants of the update that C5 and C7 are tested against: one that leaves
\* the status as it was, one that clears the selection.
ObservedKeepsStatus(device, ip_address, t) ==
    [device EXCEPT !.last_arp_time = Some(t),
                   !.ip_address = ip_address]

ObservedDeselects(device, ip_address, t) ==
    [device EXCEPT !.last_arp_time = Some(t),
                   !.status = "Active",
                   !.ip_address = ip_address,
                   !.selected = FALSE]

\* A variant that C28 is tested against: the observation leaves the record
\* without a time.
ObservedForgetsTime(device, ip_address, t) ==
    [device EXCEPT !.last_arp_time = None,
                   !.status = "Active",
                   !.ip_address = ip_address]

\* The update of a record that is already in the registry.
Observed(device, ip_address, t) ==
    [device EXCEPT !.last_arp_time = Some(t),
                   !.status = "Active",
                   !.ip_address = ip_address]

\* A variant of the created record that C6 is tested against: it starts
\* selected.
NewDeviceSelected(ip_address, mac_address, t) ==
    [ip_address |-> ip_address,
     mac_address |-> mac_address,
     status |-> "Active",
     last_arp_time |-> Some(t),
     selected |-> TRUE,
     is_killed |-> FALSE]

\* The record created for an unknown key.
NewDevice(ip_address, mac_address, t) ==
    [ip_address |-> ip_address,
     mac_address |-> mac_address,
     status |-> "Active",
     last_arp_time |-> Some(t),
     selected |-> FALSE,
     is_killed |-> FALSE]

\* The registry after an observation of (mac_address, ip_address) at time t.
ListenerDevices(map, mac_address, ip_address, t) ==
    IF mac_address \in DOMAIN map
    THEN [map EXCEPT ![mac_address] = Observed(@, ip_address, t)]
    ELSE Insert(map, mac_address, NewDevice(ip_address, mac_address, t))

\* A variant of the listener that C2 is tested against: it announces every
\* observation, known key or not.
ListenerEventsAlways(map, mac_address, ip_address, t) ==
    << NewDevice(ip_address, mac_address, t) >>

\* The events the observation sends on the device channel.
ListenerEvents(map, mac_address, ip_address, t) ==
    IF mac_address \in DOMAIN map
    THEN << >>
    ELSE << NewDevice(ip_address, mac_address, t) >>

OnPacketArrival(rx) ==
    /\ scanner \in TasksRunning
    /\ LET source_ip == SourceIp(rx) IN
       IF IsSome(source_ip)
       THEN LET mac_address == MacToString(rx.source)
                ip_address == IpToString(Unwrap(source_ip))
                events == ListenerEvents(devices, mac_address, ip_address, now)
            IN  /\ inputs.frames < MaxFrames
                /\ inputs' = [inputs EXCEPT !.frames = @ + 1]
                /\ devices' = ListenerDevices(devices, mac_address, ip_address, now)
                /\ device_channel' = device_channel \o events
                /\ emitted' = [emitted EXCEPT ![rx.source] = @ + Len(events)]
                /\ last' = [op |-> "listener", key |-> mac_address,
                            ip |-> Unwrap(source_ip),
                            created |-> mac_address \notin DOMAIN devices,
                            prior |-> IF mac_address \in DOMAIN devices
                                      THEN devices[mac_address].status
                                      ELSE "None"]
       ELSE /\ UNCHANGED << killer, render, commands, inputs, devices, device_channel, emitted >>
            /\ last' = Other
    /\ sent' = {}
    /\ UNCHANGED << killer, render, commands, now, selected_interface, scanner, error, loops, net >>

Listener == \E rx \in RxResults : OnPacketArrival(rx)

\* A host outside the interface's network, 192.168.9.8, whose IPv4 packets
\* the gateway forwards: the frame's source is the gateway's hardware
\* address, the packet's source the remote address.
Remote == [mac |-> Gateway.mac, ip |-> (8 * 256) + 8]

RxForwarded ==
    { [ok |-> TRUE, len_ok |-> TRUE, ethertype |-> "Ipv4", source |-> Remote.mac,
       payload_ok |-> TRUE, ip |-> Remote.ip] }

ListenerForwarded == \E rx \in RxForwarded : OnPacketArrival(rx)

(***************************************************************************)
(* The clock.                                                              *)
(***************************************************************************)
Tick ==
    /\ now < MaxTicks * IntervalSecs
    /\ now' = now + IntervalSecs
    /\ sent' = {}
    /\ last' = Other
    /\ UNCHANGED << killer, render, commands, inputs, devices, device_channel, emitted, selected_interface,
                    scanner, error, loops, net >>

(***************************************************************************)
(* The liveness monitor: one tick of start_background_scan.                *)
(***************************************************************************)
\* A variant that C25 is tested against: every record that has been seen
\* counts as stale.
IsStaleAlways(device, t) == IsSome(device.last_arp_time)

IsStale(device, t) ==
    /\ IsSome(device.last_arp_time)
    /\ t - Unwrap(device.last_arp_time) > TimeoutSecs

\* A variant that C26 is tested against: the threshold is twice the timeout.
DemoteLate(device, t) ==
    IF IsSome(device.last_arp_time)
          /\ t - Unwrap(device.last_arp_time) > 2 * TimeoutSecs
    THEN [device EXCEPT !.status = "Inactive"]
    ELSE device

Demote(device, t) ==
    IF IsStale(device, t) THEN [device EXCEPT !.status = "Inactive"] ELSE device

\* The records one tick assigns a status to, and what last records of the
\* tick: the keys written and the status each record had before.
Written(map, t) == {k \in DOMAIN map : IsStale(map[k], t)}

Demoted(map, t) ==
    IF Written(map, t) = {} THEN Other
    ELSE [op |-> "monitor", key |-> Written(map, t), ip |-> 0,
          created |-> FALSE,
          prior |-> [k \in Written(map, t) |-> map[k].status]]

BackgroundScan ==
    /\ scanner \in TasksRunning
    /\ devices' = [k \in DOMAIN devices |-> Demote(devices[k], now)]
    /\ sent' = {}
    /\ last' = Demoted(devices, now)
    /\ UNCHANGED << killer, render, commands, inputs, now, device_channel, emitted, selected_interface, scanner,
                    error, loops, net >>

(***************************************************************************)
(* ARP replies: send_arp_reply of killer.rs, disconnect.rs and restore.rs. *)
(***************************************************************************)
ArpReply(source_ip, target_ip, source_mac, target_mac) ==
    [destination |-> target_mac,
     source |-> source_mac,
     ethertype |-> "Arp",
     operation |-> "Reply",
     sender_hw_addr |-> source_mac,
     sender_proto_addr |-> source_ip,
     target_hw_addr |-> target_mac,
     target_proto_addr |-> target_ip]

\* datalink::interfaces().iter().find(|i| i has the gateway's address)
\*     .and_then(|i| i.mac).unwrap_or_else(MacAddr::zero):
\* the search runs over this host's own interfaces.
GatewayMac(gateway_ip) ==
    LET hits == {i \in Interfaces : i.ipv4 = Some(gateway_ip)}
    IN  IF hits = {} THEN MacZero
        ELSE LET i == CHOOSE x \in hits : TRUE
             IN  IF IsSome(i.mac) THEN Unwrap(i.mac) ELSE MacZero

\* The two forged replies of one poisoning round.
PoisonVictimFrame(source_ip, gateway_ip, source_mac, target_mac) ==
    ArpReply(source_ip, gateway_ip, source_mac, target_mac)

PoisonGatewayFrame(source_ip, target_ip, source_mac, gateway_ip) ==
    ArpReply(source_ip, target_ip, source_mac, GatewayMac(gateway_ip))

(***************************************************************************)
(* What the system answers during one call: the default gateway            *)
(* (default_net::get_default_gateway), whether datalink::channel opens,    *)
(* and whether get_default_interface finds an interface.                   *)
(***************************************************************************)
Envs ==
    { [gateway |-> Some(GatewayIp), channel_ok |-> TRUE, iface_ok |-> TRUE],
      [gateway |-> None, channel_ok |-> TRUE, iface_ok |-> TRUE],
      [gateway |-> Some(GatewayIp), channel_ok |-> FALSE, iface_ok |-> TRUE],
      [gateway |-> Some(GatewayIp), channel_ok |-> TRUE, iface_ok |-> FALSE] }

\* get_default_interface: the first interface that is up, has a hardware
\* address and an IPv4 address.
DefaultInterface == [mac |-> Some(10), ipv4 |-> Some(10), prefix |-> 24]

(***************************************************************************)
(* The poisoning tick loop: Killer::spoof_targets and spoof_target.        *)
(***************************************************************************)
\* A variant of spoof_target that C11 is tested against: it poisons the
\* victim and leaves the gateway alone.
SpoofTargetVictimOnly(interface, key, device, env) ==
    IF \/ ~IsSome(interface.ipv4)
       \/ ~IsSome(env.gateway)
       \/ ~IsSome(ParseIpv4(device.ip_address))
       \/ ~IsSome(ParseMac(device.mac_address))
       \/ ~env.channel_ok
    THEN {}
    ELSE { [call |-> "poison_target", key |-> key, by |-> "killer",
            frame |-> PoisonVictimFrame(Unwrap(interface.ipv4),
                                        Unwrap(env.gateway),
                                        Unwrap(interface.mac),
                                        Unwrap(ParseMac(device.mac_address)))] }

\* The frames spoof_target sends for one device, tagged with the device key
\* and the call that sent them.
SpoofTarget(interface, key, device, env) ==
    LET target_ip == ParseIpv4(device.ip_address)
        target_mac == ParseMac(device.mac_address)
    IN  IF \/ ~IsSome(interface.ipv4)
           \/ ~IsSome(env.gateway)
           \/ ~IsSome(target_ip)
           \/ ~IsSome(target_mac)
           \/ ~env.channel_ok
        THEN {}
        ELSE { [call |-> "poison_target", key |-> key, by |-> "killer",
                frame |-> PoisonVictimFrame(Unwrap(interface.ipv4),
                                            Unwrap(env.gateway),
                                            Unwrap(interface.mac),
                                            Unwrap(target_mac))],
               [call |-> "poison_gateway", key |-> key, by |-> "killer",
                frame |-> PoisonGatewayFrame(Unwrap(interface.ipv4),
                                             Unwrap(target_ip),
                                             Unwrap(interface.mac),
                                             Unwrap(env.gateway))] }

Killed(map) == {k \in DOMAIN map : map[k].is_killed}

\* interface.mac.unwrap(), evaluated for the first send_arp_reply once the
\* channel is open, panics on an interface without a hardware address.
SpoofPanics(interface, device, env) ==
    /\ IsSome(interface.ipv4)
    /\ IsSome(env.gateway)
    /\ IsSome(ParseIpv4(device.ip_address))
    /\ IsSome(ParseMac(device.mac_address))
    /\ env.channel_ok
    /\ ~IsSome(interface.mac)

\* A variant of the tick that C33 is tested against: the first call that
\* does not open its channel ends the tick for every record.
SpoofTargetsAbort(gateway, opens) ==
    /\ sent' = IF IsSome(selected_interface) /\ \A k \in Killed(devices) : opens[k]
               THEN UNION { SpoofTarget(Unwrap(selected_interface), k, devices[k],
                                        [gateway |-> gateway,
                                         channel_ok |-> opens[k]]) :
                            k \in Killed(devices) }
               ELSE {}
    /\ last' = Other
    /\ UNCHANGED << killer, render, commands, inputs, devices, now, device_channel, emitted,
                    selected_interface, scanner, error, loops, net >>

\* gateway is the system's answer during the tick, opens[k] whether the
\* channel opens in the call for device k.
SpoofTargets(gateway, opens) ==
    LET panics == /\ IsSome(selected_interface)
                  /\ \E k \in Killed(devices) :
                        SpoofPanics(Unwrap(selected_interface), devices[k],
                                    [gateway |-> gateway, channel_ok |-> opens[k]])
    IN  /\ killer = "running"
        /\ killer' = IF panics THEN "panicked" ELSE killer
        /\ sent' = IF IsSome(selected_interface) /\ ~panics
                   THEN UNION { SpoofTarget(Unwrap(selected_interface), k, devices[k],
                                            [gateway |-> gateway,
                                             channel_ok |-> opens[k]]) :
                                k \in Killed(devices) }
                   ELSE {}
        /\ last' = Other
        /\ UNCHANGED << render, commands, inputs, devices, now, device_channel, emitted,
                    selected_interface, scanner, error, loops, net >>

\* Without an interface with an IPv4 address or without a gateway every call
\* fails before the channel is opened.
KillerTick ==
    \E gateway \in {None, Some(GatewayIp)} :
        LET asked == /\ IsSome(selected_interface)
                     /\ IsSome(Unwrap(selected_interface).ipv4)
                     /\ IsSome(gateway)
        IN  \E opens \in IF asked THEN [Killed(devices) -> BOOLEAN]
                         ELSE {[k \in Killed(devices) |-> FALSE]} :
                SpoofTargets(gateway, opens)

\* The tick on which the system names the default gateway and the channel
\* opens in every call.
PoisonTickOk ==
    \E opens \in [Killed(devices) -> {TRUE}] :
        SpoofTargets(Some(GatewayIp), opens)

(***************************************************************************)
(* Per-device poisoning threads: kill_selected_devices, kill_all_devices   *)
(* and poison_target of disconnect.rs.                                     *)
(***************************************************************************)
\* The thread poison_target leaves running for a device, if any.
PoisonTarget(device, env) ==
    LET target_ip == ParseIpv4(device.ip_address)
        target_mac == ParseMac(device.mac_address)
    IN  IF \/ ~env.iface_ok
           \/ ~IsSome(DefaultInterface.ipv4)
           \/ ~IsSome(env.gateway)
           \/ ~IsSome(target_ip)
           \/ ~IsSome(target_mac)
           \/ ~env.channel_ok
        THEN None
        ELSE Some([interface |-> DefaultInterface,
                   source_ip |-> Unwrap(DefaultInterface.ipv4),
                   gateway_ip |-> Unwrap(env.gateway),
                   target_ip |-> Unwrap(target_ip),
                   target_mac |-> Unwrap(target_mac)])

LoopCount(l, d) == IF d \in DOMAIN l THEN l[d] ELSE 0

TotalLoops(l) ==
    LET RECURSIVE Sum(_)
        Sum(ds) == IF ds = {} THEN 0
                   ELSE LET d == CHOOSE x \in ds : TRUE
                        IN  l[d] + Sum(ds \ {d})
    IN  Sum(DOMAIN l)

\* The threads after poison_target has run for every device in targets.
SpawnLoops(l, map, targets, env) ==
    LET started == {PoisonTarget(map[k], env) : k \in targets} \ {None}
        descs == (DOMAIN l) \cup {Unwrap(o) : o \in started}
    IN  [d \in descs |->
            LoopCount(l, d)
            + Cardinality({k \in targets : PoisonTarget(map[k], env) = Some(d)})]

\* A variant that C30 is tested against: every selected record is a target,
\* Blocked or not.
KillSelectedTargetsAny(map) == {k \in DOMAIN map : map[k].selected}

KillSelectedTargets(map) ==
    {k \in DOMAIN map : map[k].selected /\ map[k].status # "Blocked"}

KillAllTargets(map) ==
    {k \in DOMAIN map : map[k].status # "Blocked"}

SetBlocked(map, targets) ==
    [k \in DOMAIN map |->
        IF k \in targets THEN [map[k] EXCEPT !.status = "Blocked"] ELSE map[k]]

\* One round of a poison_target thread.
LoopFrames(d) ==
    { [call |-> "poison_target", key |-> MacToString(d.target_mac), by |-> "loop",
       frame |-> PoisonVictimFrame(d.source_ip, d.gateway_ip,
                                   Unwrap(d.interface.mac), d.target_mac)],
      [call |-> "poison_gateway", key |-> MacToString(d.target_mac), by |-> "loop",
       frame |-> PoisonGatewayFrame(d.source_ip, d.target_ip,
                                    Unwrap(d.interface.mac), d.gateway_ip)] }

PoisonLoopRound ==
    \E d \in DOMAIN loops :
        /\ sent' = LoopFrames(d)
        /\ last' = Other
        /\ UNCHANGED << killer, render, commands, inputs, devices, now, device_channel, emitted,
                        selected_interface, scanner, error, loops, net >>

(***************************************************************************)
(* Restoration: restore_selected_devices, restore_all_devices and          *)
(* restore_target of restore.rs.                                           *)
(***************************************************************************)
\* get_mac_for_ip
GetMacForIp(ip) == Some(MacZero)

RestoreTarget(key, device, env) ==
    LET target_ip == ParseIpv4(device.ip_address)
        target_mac == ParseMac(device.mac_address)
        gateway_mac == GetMacForIp(env.gateway)
    IN  IF \/ ~env.iface_ok
           \/ ~IsSome(env.gateway)
           \/ ~IsSome(target_ip)
           \/ ~IsSome(target_mac)
           \/ ~IsSome(gateway_mac)
           \/ ~env.channel_ok
        THEN {}
        ELSE { [call |-> "restore_target", key |-> key, by |-> "restore",
                frame |-> ArpReply(Unwrap(env.gateway), Unwrap(target_ip),
                                   Unwrap(gateway_mac), Unwrap(target_mac))],
               [call |-> "restore_gateway", key |-> key, by |-> "restore",
                frame |-> ArpReply(Unwrap(target_ip), Unwrap(env.gateway),
                                   Unwrap(target_mac), Unwrap(gateway_mac))] }

\* What restore_target returns to its caller: the channel is opened in the
\* thread it leaves behind, after Ok(()) is decided.
RestoreResult(device, env) ==
    IF \/ ~env.iface_ok
       \/ ~IsSome(env.gateway)
       \/ ~IsSome(ParseIpv4(device.ip_address))
       \/ ~IsSome(ParseMac(device.mac_address))
       \/ ~IsSome(GetMacForIp(env.gateway))
    THEN "Err"
    ELSE "Ok"

\* What last records of a restoration: the keys restored and, for
\* restore_selected_devices, what restore_target returned for each.
Restored(op, map, targets, env) ==
    [op |-> op, key |-> targets, ip |-> 0, created |-> FALSE, prior |-> "None",
     results |-> [k \in targets |-> RestoreResult(map[k], env)]]

RestoreSelectedTargets(map) ==
    {k \in DOMAIN map : map[k].selected /\ map[k].status = "Blocked"}

RestoreAllTargets(map) ==
    {k \in DOMAIN map : map[k].status = "Blocked"}

SetActive(map, targets) ==
    [k \in DOMAIN map |->
        IF k \in targets THEN [map[k] EXCEPT !.status = "Active"] ELSE map[k]]

(***************************************************************************)
(* The UI: NetworkManagerApp::update.  Every frame first drains the        *)
(* new-device events into the registry, keyed by the parsed ip_address.    *)
(***************************************************************************)
RECURSIVE Drain(_, _)
Drain(map, events) ==
    IF events = << >> THEN map
    ELSE LET device == Head(events)
             ip == ParseIpKey(device.ip_address)
         IN  Drain(IF IsSome(ip) THEN Insert(map, Unwrap(ip), device) ELSE map,
                   Tail(events))

\* The panel with the buttons and the table is rendered.
Rendered == IsSome(selected_interface) /\ ~IsSome(error)

\* One more button or checkbox input is consumed.
Click ==
    /\ inputs.clicks < MaxClicks
    /\ inputs' = [inputs EXCEPT !.clicks = @ + 1]


\* A frame without input.
UiFrame ==
    /\ device_channel # << >>
    /\ devices' = Drain(devices, device_channel)
    /\ device_channel' = << >>
    /\ sent' = {}
    /\ last' = Other
    /\ UNCHANGED << killer, render, commands, inputs, now, emitted, selected_interface, scanner, error, loops, net >>

\* The interface selector: an interface is chosen and the scanner spawned.
UiSelectInterface ==
    \E interface \in Interfaces :
        /\ ~IsSome(selected_interface)
        /\ devices' = Drain(devices, device_channel)
        /\ selected_interface' = Some(interface)
        /\ device_channel' = << >>
        /\ scanner' = "spawned"
        /\ sent' = {}
        /\ last' = Other
        /\ UNCHANGED << killer, render, commands, inputs, now, emitted, error, loops, net >>

\* Interfaces the selector also lists (not loopback, with an address) that
\* have no hardware address, such as a tunnel.
InterfacesNoMac == {[mac |-> None, ipv4 |-> Some(10), prefix |-> 24]}

UiSelectNoMac ==
    \E interface \in InterfacesNoMac :
        /\ ~IsSome(selected_interface)
        /\ devices' = Drain(devices, device_channel)
        /\ selected_interface' = Some(interface)
        /\ device_channel' = << >>
        /\ scanner' = "spawned"
        /\ sent' = {}
        /\ last' = Other
        /\ UNCHANGED << killer, render, commands, inputs, now, emitted, error, loops, net >>

\* An interface on a network of four addresses, 192.168.1.0/30.
InterfacesSmall == {[mac |-> Some(10), ipv4 |-> Some(2), prefix |-> 30]}

UiSelectSmall ==
    \E interface \in InterfacesSmall :
        /\ ~IsSome(selected_interface)
        /\ devices' = Drain(devices, device_channel)
        /\ selected_interface' = Some(interface)
        /\ device_channel' = << >>
        /\ scanner' = "spawned"
        /\ sent' = {}
        /\ last' = Other
        /\ UNCHANGED << killer, render, commands, inputs, now, emitted, error, loops, net >>

\* The "Disconnect All" button.
DisconnectAll(map) == [k \in DOMAIN map |-> [map[k] EXCEPT !.is_killed = TRUE]]

UiDisconnectAll ==
    /\ Rendered
    /\ devices' = DisconnectAll(Drain(devices, device_channel))
    /\ device_channel' = << >>
    /\ sent' = {}
    /\ Click
    /\ last' = Other
    /\ UNCHANGED << killer, render, commands, now, emitted, selected_interface, scanner, error, loops, net >>

\* The "Restore All" button.
RestoreAll(map) == [k \in DOMAIN map |-> [map[k] EXCEPT !.is_killed = FALSE]]

UiRestoreAll ==
    /\ Rendered
    /\ devices' = RestoreAll(Drain(devices, device_channel))
    /\ device_channel' = << >>
    /\ sent' = {}
    /\ Click
    /\ last' = [op |-> "restore_all",
                key |-> Killed(Drain(devices, device_channel)),
                ip |-> 0, created |-> FALSE, prior |-> "None"]
    /\ UNCHANGED << killer, render, commands, now, emitted, selected_interface, scanner, error, loops, net >>

\* The "Select" checkbox of the table header, changed to b.
SelectAll(map, b) == [k \in DOMAIN map |-> [map[k] EXCEPT !.selected = b]]

UiSelectAll ==
    \E b \in BOOLEAN :
        /\ Rendered
        /\ devices' = SelectAll(Drain(devices, device_channel), b)
        /\ device_channel' = << >>
        /\ sent' = {}
        /\ Click
        /\ last' = Other
        /\ UNCHANGED << killer, render, commands, now, emitted, selected_interface, scanner, error, loops, net >>

\* The checkbox of one table row.
ToggleRow(map, key) == [map EXCEPT ![key].selected = ~@]

UiToggleRow ==
    \E key \in DOMAIN Drain(devices, device_channel) :
        /\ Rendered
        /\ devices' = ToggleRow(Drain(devices, device_channel), key)
        /\ device_channel' = << >>
        /\ sent' = {}
        /\ Click
        /\ last' = Other
        /\ UNCHANGED << killer, render, commands, now, emitted, selected_interface, scanner, error, loops, net >>

\* The "Disconnect Selected" button: kill_selected_devices.
UiDisconnectSelected ==
    \E env \in Envs :
        LET map == Drain(devices, device_channel)
            targets == KillSelectedTargets(map)
        IN  /\ Rendered
            /\ targets # {}
            /\ loops' = SpawnLoops(loops, map, targets, env)
            /\ TotalLoops(loops') <= MaxLoops
            /\ devices' = SetBlocked(map, targets)
            /\ device_channel' = << >>
            /\ sent' = {}
            /\ Click
            /\ last' = Other
            /\ UNCHANGED << killer, render, commands, now, emitted, selected_interface, scanner, error, net >>

\* The "Restore Selected" button: restore_selected_devices.
UiRestoreSelected ==
    \E env \in Envs :
        LET map == Drain(devices, device_channel)
            targets == RestoreSelectedTargets(map)
        IN  /\ Rendered
            /\ targets # {}
            /\ devices' = SetActive(map, targets)
            /\ sent' = UNION {RestoreTarget(k, map[k], env) : k \in targets}
            /\ device_channel' = << >>
            /\ Click
            /\ last' = Restored("restore", map, targets, env)
            /\ UNCHANGED << killer, render, commands, now, emitted, selected_interface, scanner, error,
                            loops, net >>

\* kill_all_devices and restore_all_devices, which no button calls.
KillAllDevices ==
    \E env \in Envs :
        LET targets == KillAllTargets(devices)
        IN  /\ targets # {}
            /\ loops' = SpawnLoops(loops, devices, targets, env)
            /\ TotalLoops(loops') <= MaxLoops
            /\ devices' = SetBlocked(devices, targets)
            /\ sent' = {}
            /\ Click
            /\ last' = Other
            /\ UNCHANGED << killer, render, commands, now, device_channel, emitted, selected_interface,
                            scanner, error, net >>

RestoreAllDevices ==
    \E env \in Envs :
        LET targets == RestoreAllTargets(devices)
        IN  /\ targets # {}
            /\ devices' = SetActive(devices, targets)
            /\ sent' = UNION {RestoreTarget(k, devices[k], env) : k \in targets}
            /\ Click
            /\ last' = Restored("restore", devices, targets, env)
            /\ UNCHANGED << killer, render, commands, now, device_channel, emitted, selected_interface,
                            scanner, error, loops, net >>

(***************************************************************************)
(* The sweep: NetworkScanner::probe_devices.                               *)
(***************************************************************************)
\* The addresses Ipv4Network::iter() yields for the network of ip/prefix, in
\* order: every address from the network address to the broadcast address,
\* both included.
NetworkIter(ip, prefix) ==
    LET size == 2 ^ (32 - prefix)
        network == ip - (ip % size)
    IN  [i \in 1..size |-> network + i - 1]

\* A variant that C17 is tested against: no address is skipped.
ProbeTargetsAll(source_ip, prefix) == NetworkIter(source_ip, prefix)

\* The addresses the loop of probe_devices does not skip.
ProbeTargets(source_ip, prefix) ==
    SelectSeq(NetworkIter(source_ip, prefix), LAMBDA ip : ip # source_ip)

CommonPorts == << 22, 80, 443, 3389, 8080 >>

ArpRequest(source_mac, source_ip, target_ip) ==
    [destination |-> MacBroadcast,
     source |-> source_mac,
     ethertype |-> "Arp",
     operation |-> "Request",
     sender_hw_addr |-> source_mac,
     sender_proto_addr |-> source_ip,
     target_hw_addr |-> MacZero,
     target_proto_addr |-> target_ip]

IcmpEchoRequest(source_mac, source_ip, target_ip) ==
    [destination |-> MacBroadcast,
     source |-> source_mac,
     ethertype |-> "Ipv4",
     protocol |-> "Icmp",
     ip_source |-> source_ip,
     ip_destination |-> target_ip]

TcpSyn(source_mac, source_ip, target_ip, target_port) ==
    [destination |-> MacBroadcast,
     source |-> source_mac,
     ethertype |-> "Ipv4",
     protocol |-> "Tcp",
     ip_source |-> source_ip,
     ip_destination |-> target_ip,
     tcp_destination |-> target_port]

\* The j-th frame probe_devices sends for one address: an ARP request, an
\* ICMP echo request, then a TCP SYN to each of the common ports.
ProbeAt(source_mac, source_ip, ip, j) ==
    IF j = 1
    THEN [call |-> "arp_request",
          frame |-> ArpRequest(source_mac, source_ip, ip)]
    ELSE IF j = 2
    THEN [call |-> "icmp_echo_request",
          frame |-> IcmpEchoRequest(source_mac, source_ip, ip)]
    ELSE [call |-> "tcp_syn",
          frame |-> TcpSyn(source_mac, source_ip, ip, CommonPorts[j - 2])]

\* The sends of one sweep, in order: the probes for the first address, then
\* those for the second, and so on.
Sweep(source_mac, source_ip, targets) ==
    LET each == 2 + Len(CommonPorts)
    IN  [n \in 1..(Len(targets) * each) |->
            ProbeAt(source_mac, source_ip,
                    targets[((n - 1) \div each) + 1], ((n - 1) % each) + 1)]

\* Where a send can fail: nowhere (0), or at the send of that position, which
\* ends probe_devices with the error.
FailPoints == {0, 1, 2, 9}

\* A variant of probe_devices that C21 is tested against: an interface
\* without an IPv4 address is swept from the unspecified address.
ProbeDevicesUnspecified(interface, fail_at) ==
    LET source_ip == IF IsSome(interface.ipv4) THEN Unwrap(interface.ipv4) ELSE 0
        sends == Sweep(Unwrap(interface.mac), source_ip,
                       ProbeTargets(source_ip, interface.prefix))
        done == IF fail_at = 0 THEN Len(sends) ELSE fail_at - 1
    IN  [error |-> IF fail_at = 0 THEN None ELSE Some("Failed to send packet"),
         frames |-> { [by |-> "probe", key |-> None, seq |-> n,
                       call |-> sends[n].call, frame |-> sends[n].frame] :
                      n \in 1..done }]

\* probe_devices: its result and the frames it has put on the wire, each
\* tagged with its position in the sweep.
ProbeDevices(interface, fail_at) ==
    IF ~IsSome(interface.ipv4)
    THEN [error |-> Some("No IPv4 address found"), frames |-> {}]
    ELSE LET sends == Sweep(Unwrap(interface.mac), Unwrap(interface.ipv4),
                            ProbeTargets(Unwrap(interface.ipv4), interface.prefix))
             done == IF fail_at = 0 THEN Len(sends) ELSE fail_at - 1
         IN  [error |-> IF fail_at = 0 THEN None
                        ELSE Some("Failed to send packet"),
              frames |-> { [by |-> "probe", key |-> None, seq |-> n,
                            call |-> sends[n].call, frame |-> sends[n].frame] :
                           n \in 1..done }]

(***************************************************************************)
(* Frames on the wire.  A hardware address is six octets, an IPv4 address  *)
(* four: address n of the model is 192.168.(1 + n / 256).(n % 256), so     *)
(* that 0..255 is the network 192.168.1.0/24.                              *)
(***************************************************************************)
MacOctets(mac) ==
    [i \in 1..6 |-> IF mac = MacBroadcast THEN 255 ELSE IF i = 6 THEN mac ELSE 0]

OctetsMac(b) ==
    IF \A i \in 1..6 : b[i] = 255 THEN MacBroadcast ELSE b[6]

Ipv4Octets(ip) == << 192, 168, 1 + (ip \div 256), ip % 256 >>

OctetsIpv4(b) == (b[3] - 1) * 256 + b[4]

\* A variant that C31 is tested against: the sender protocol address field
\* is filled with the target's address.
ArpRequestPacketSwapped(source_mac, source_ip, target_ip) ==
    MacOctets(MacBroadcast) \o MacOctets(source_mac) \o << 8, 6 >>
        \o << 0, 1 >> \o << 8, 0 >> \o << 6 >> \o << 4 >> \o << 0, 1 >>
        \o MacOctets(source_mac) \o Ipv4Octets(target_ip)
        \o MacOctets(MacZero) \o Ipv4Octets(target_ip)

\* The 42 octets send_arp_request hands to tx.send_to: the Ethernet header
\* (destination, source, ethertype 0x0806) and the 28 octets of the ARP
\* packet (hardware type, protocol type, the two lengths, operation,
\* sender hardware and protocol address, target hardware and protocol
\* address).
ArpRequestPacket(source_mac, source_ip, target_ip) ==
    MacOctets(MacBroadcast) \o MacOctets(source_mac) \o << 8, 6 >>
        \o << 0, 1 >> \o << 8, 0 >> \o << 6 >> \o << 4 >> \o << 0, 1 >>
        \o MacOctets(source_mac) \o Ipv4Octets(source_ip)
        \o MacOctets(MacZero) \o Ipv4Octets(target_ip)

\* What the listener reads off the octets rx.next() returns:
\* EthernetPacket::new needs the 14 octets of the header, ArpPacket::new 28
\* octets of payload and Ipv4Packet::new 20; the source is the Ethernet
\* source, the address the ARP sender protocol address or the IPv4 source.
Decode(packet) ==
    LET len_ok == Len(packet) >= 14
        payload == IF len_ok THEN SubSeq(packet, 15, Len(packet)) ELSE << >>
        ethertype == IF ~len_ok THEN "None"
                     ELSE IF SubSeq(packet, 13, 14) = << 8, 6 >> THEN "Arp"
                     ELSE IF SubSeq(packet, 13, 14) = << 8, 0 >> THEN "Ipv4"
                     ELSE "Other"
        payload_ok == \/ ethertype = "Arp" /\ Len(payload) >= 28
                      \/ ethertype = "Ipv4" /\ Len(payload) >= 20
    IN  [ok |-> TRUE,
         len_ok |-> len_ok,
         ethertype |-> ethertype,
         source |-> IF len_ok THEN OctetsMac(SubSeq(packet, 7, 12)) ELSE MacZero,
         payload_ok |-> payload_ok,
         ip |-> IF ~payload_ok THEN 0
                ELSE IF ethertype = "Arp" THEN OctetsIpv4(SubSeq(payload, 15, 18))
                ELSE OctetsIpv4(SubSeq(payload, 13, 16))]

(***************************************************************************)
(* The scanner task: NetworkScanner::start.                                *)
(***************************************************************************)
\* A variant of start that C20 is tested against: the initial sweep is
\* sent before the result of opening the channel is looked at.
StartResultProbesFirst(interface, channel_ok, fail_at) ==
    LET probe == ProbeDevices(interface, fail_at)
    IN  IF ~channel_ok
        THEN [scanner |-> "open_failed",
              error |-> Some("Failed to create channel"),
              frames |-> probe.frames]
        ELSE [scanner |-> IF IsSome(probe.error) THEN "probe_failed" ELSE "idle",
              error |-> probe.error,
              frames |-> probe.frames]

\* The channel is opened, the listener and the monitor are spawned and the
\* initial probe_devices runs; a failure ends start() with an error.
StartResult(interface, channel_ok, fail_at) ==
    IF ~channel_ok
    THEN [scanner |-> "open_failed", error |-> Some("Failed to create channel"),
          frames |-> {}]
    ELSE IF IsSome(interface.ipv4) /\ ~IsSome(interface.mac)
    THEN \* interface.mac.unwrap() in the first send_arp_request panics: the
         \* task ends without an Err, the spawned listener and monitor stay
         [scanner |-> "panicked", error |-> None, frames |-> {}]
    ELSE LET probe == ProbeDevices(interface, fail_at)
         IN  [scanner |-> IF IsSome(probe.error) THEN "probe_failed" ELSE "idle",
              error |-> probe.error,
              frames |-> probe.frames]

ScannerStart ==
    \E channel_ok \in BOOLEAN, fail_at \in FailPoints :
        LET r == StartResult(Unwrap(selected_interface), channel_ok, fail_at)
        IN  /\ scanner = "spawned"
            /\ scanner' = r.scanner
            /\ error' = IF IsSome(r.error) THEN r.error ELSE error
            /\ sent' = r.frames
            /\ last' = Other
            /\ UNCHANGED << killer, render, commands, inputs, devices, now, device_channel, emitted,
                            selected_interface, loops, net >>

(***************************************************************************)
(* start() step by step: the listener is spawned before the initial sweep  *)
(* and runs while it is sent; the proxy-ARP detection follows the sweep.   *)
(***************************************************************************)
\* mac_to_ips: for every hardware address that parses, the addresses of the
\* entries that carry it and whose address parses.
MacToIps(map) ==
    LET entries == {k \in DOMAIN map : /\ IsSome(ParseIpv4(map[k].ip_address))
                                       /\ IsSome(ParseMac(map[k].mac_address))}
    IN  [mac \in {Unwrap(ParseMac(map[k].mac_address)) : k \in entries} |->
            {Unwrap(ParseIpv4(map[k].ip_address)) :
                k \in {e \in entries : ParseMac(map[e].mac_address) = Some(mac)}}]

\* What last records of the detection: whether the warning was sent.
\* router_mac is the hardware address default_net reports for the gateway,
\* if it reports a gateway.
ProxyArpDetection(map, router_mac) ==
    [op |-> "proxy_arp", key |-> None, ip |-> 0, created |-> FALSE,
     prior |-> "None",
     warned |-> /\ IsSome(router_mac)
                /\ Unwrap(router_mac) \in DOMAIN MacToIps(map)]

\* datalink::channel and the two tokio::spawn calls.
ScannerOpen ==
    \E channel_ok \in BOOLEAN :
        /\ scanner = "spawned"
        /\ scanner' = IF channel_ok THEN "probing" ELSE "open_failed"
        /\ error' = IF channel_ok THEN error ELSE Some("Failed to create channel")
        /\ sent' = {}
        /\ last' = Other
        /\ UNCHANGED << killer, render, commands, inputs, devices, now, device_channel,
                        emitted, selected_interface, loops, net >>

\* The initial probe_devices returns, and on Ok the detection runs.
InitialProbe ==
    \E fail_at \in FailPoints, router_mac \in {None, Some(Gateway.mac)} :
        LET probe == ProbeDevices(Unwrap(selected_interface), fail_at)
        IN  /\ scanner = "probing"
            /\ scanner' = IF IsSome(probe.error) THEN "probe_failed" ELSE "idle"
            /\ error' = IF IsSome(probe.error) THEN probe.error ELSE error
            /\ sent' = probe.frames
            /\ last' = IF IsSome(probe.error) THEN Other
                       ELSE ProxyArpDetection(devices, router_mac)
            /\ UNCHANGED << killer, render, commands, inputs, devices, now, device_channel,
                            emitted, selected_interface, loops, net >>

(***************************************************************************)
(* Scan commands: the "Scan Network" and "Refresh" buttons send            *)
(* ScanCommand::Scan; the loop at the end of start() receives one command  *)
(* at a time and runs probe_devices for it.                                *)
(***************************************************************************)
UiScan ==
    /\ Rendered
    /\ devices' = Drain(devices, device_channel)
    /\ device_channel' = << >>
    /\ commands' = commands + 1
    /\ sent' = {}
    /\ Click
    /\ last' = Other
    /\ UNCHANGED << killer, render, now, emitted, selected_interface, scanner, error, loops, net >>

\* A variant of the command loop that C35 is tested against: one sweep
\* answers every command that is waiting in the channel.
ScanRecvDrains ==
    /\ scanner = "idle"
    /\ commands > 0
    /\ commands' = 0
    /\ scanner' = "sweeping"
    /\ sent' = {}
    /\ last' = Other
    /\ UNCHANGED << killer, render, inputs, devices, now, device_channel, emitted,
                    selected_interface, error, loops, net >>

\* command_receiver.recv() returns a command and probe_devices begins.
ScanRecv ==
    /\ scanner = "idle"
    /\ commands > 0
    /\ commands' = commands - 1
    /\ scanner' = "sweeping"
    /\ sent' = {}
    /\ last' = Other
    /\ UNCHANGED << killer, render, inputs, devices, now, device_channel, emitted,
                    selected_interface, error, loops, net >>

\* probe_devices returns: the loop goes on, or start() ends with the error.
SweepEnd ==
    \E fail_at \in FailPoints :
        LET probe == ProbeDevices(Unwrap(selected_interface), fail_at)
        IN  /\ scanner = "sweeping"
            /\ scanner' = IF IsSome(probe.error) THEN "scan_failed" ELSE "idle"
            /\ error' = IF IsSome(probe.error) THEN probe.error ELSE error
            /\ sent' = probe.frames
            /\ last' = Other
            /\ UNCHANGED << killer, render, commands, inputs, devices, now, device_channel,
                            emitted, selected_interface, loops, net >>

(***************************************************************************)
(* network.rs: scan_network spawns a thread that sets the scanning flag,   *)
(* runs nmap, replaces the device list by the result and clears the flag.  *)
(***************************************************************************)
NmapDevice(ip) == [ip_address |-> IpToString(ip), status |-> "Active"]

\* The list returned when nmap cannot be executed.
SampleDevices == << [ip_address |-> IpToString(0), status |-> "Blocked"] >>

\* What the nmap command can answer: it cannot be executed, or it reports
\* the hosts that are up.
NmapOutputs ==
    { [exec_ok |-> FALSE, up |-> << >>],
      [exec_ok |-> TRUE, up |-> << >>],
      [exec_ok |-> TRUE, up |-> << 5 >>],
      [exec_ok |-> TRUE, up |-> << 1, 5 >>] }

\* run_nmap_scan: every path returns Ok.
RunNmapScan(output) ==
    IF output.exec_ok
    THEN [ok |-> TRUE,
          devices |-> [i \in 1..Len(output.up) |-> NmapDevice(output.up[i])]]
    ELSE [ok |-> TRUE, devices |-> SampleDevices]

NetworkRanges == {"192.168.1.0/24"}

ScanNetwork ==
    \E network_range \in NetworkRanges :
        /\ Len(net.threads) < MaxScans
        /\ net' = [net EXCEPT !.threads =
                      Append(@, [pc |-> "spawned", network_range |-> network_range,
                                 result |-> [ok |-> FALSE, devices |-> << >>]])]
        /\ sent' = {}
        /\ last' = Other
        /\ UNCHANGED << killer, render, commands, inputs, devices, now, device_channel, emitted,
                        selected_interface, scanner, error, loops >>

\* *scan_flag = true
ScanSetFlag ==
    \E i \in DOMAIN net.threads :
        /\ net.threads[i].pc = "spawned"
        /\ net' = [net EXCEPT !.threads[i].pc = "flagged", !.scanning = TRUE]
        /\ sent' = {}
        /\ last' = Other
        /\ UNCHANGED << killer, render, commands, inputs, devices, now, device_channel, emitted,
                        selected_interface, scanner, error, loops >>

ScanRun ==
    \E i \in DOMAIN net.threads, output \in NmapOutputs :
        /\ net.threads[i].pc = "flagged"
        /\ net' = [net EXCEPT !.threads[i].pc = "scanned",
                              !.threads[i].result = RunNmapScan(output)]
        /\ sent' = {}
        /\ last' = Other
        /\ UNCHANGED << killer, render, commands, inputs, devices, now, device_channel, emitted,
                        selected_interface, scanner, error, loops >>

\* The device list and the network info after the match on the scan's result.
StoreScan(n, thread) ==
    IF thread.result.ok
    THEN [n EXCEPT !.devices = thread.result.devices,
                   !.network_info = [@ EXCEPT
                        !.active_devices = Len(thread.result.devices),
                        !.network_range = thread.network_range]]
    ELSE n

ScanStore ==
    \E i \in DOMAIN net.threads :
        /\ net.threads[i].pc = "scanned"
        /\ net' = [StoreScan(net, net.threads[i]) EXCEPT !.threads[i].pc = "stored"]
        /\ sent' = {}
        /\ last' = Other
        /\ UNCHANGED << killer, render, commands, inputs, devices, now, device_channel, emitted,
                        selected_interface, scanner, error, loops >>

\* *scan_flag = false
ScanClearFlag ==
    \E i \in DOMAIN net.threads :
        /\ net.threads[i].pc = "stored"
        /\ net' = [net EXCEPT !.threads[i].pc = "done", !.scanning = FALSE]
        /\ sent' = {}
        /\ last' = Other
        /\ UNCHANGED << killer, render, commands, inputs, devices, now, device_channel, emitted,
                        selected_interface, scanner, error, loops >>

(***************************************************************************)
(* The guards of the registry.  A DashMap hands out a reference to a       *)
(* record together with the lock of the record's shard: Ref and RefMulti   *)
(* hold it shared, RefMut holds it exclusively, until they are dropped.    *)
(* The model gives every key a shard of its own, the placement that makes  *)
(* the fewest accesses wait.                                               *)
(***************************************************************************)
\* devices_clone.iter().collect(): one RefMulti per record, alive until the
\* closure of render_table_content returns.
Guards(map) == DOMAIN map

\* render_table_content: devices_clone is a clone of the Arc, the same map.
\* The loop calls self.devices.get_mut(key) for every collected key; the
\* exclusive lock is not granted while a shared guard of that shard is
\* alive, and the guards are dropped only after the loop.
RenderTableContent(map) ==
    LET held == Guards(map)
    IN  IF \E key \in DOMAIN map : key \in held
        THEN [pc |-> "waiting", guards |-> held]
        ELSE [pc |-> "idle", guards |-> {}]

\* One pass of update() without input, the table included.
RenderFrame ==
    /\ render.pc = "idle"
    /\ devices' = Drain(devices, device_channel)
    /\ device_channel' = << >>
    /\ render' = IF Rendered THEN RenderTableContent(devices') ELSE render
    /\ sent' = {}
    /\ last' = Other
    /\ UNCHANGED << killer, commands, inputs, now, emitted, selected_interface, scanner,
                    error, loops, net >>

\* The listener with the guards: get_mut of a known key waits for the
\* exclusive lock of its shard.
ListenerFree ==
    \E rx \in RxResults :
        /\ IsSome(SourceIp(rx)) => MacToString(rx.source) \notin render.guards
        /\ OnPacketArrival(rx)

(***************************************************************************)
(* The specification.                                                      *)
(***************************************************************************)
Init ==
    /\ devices = [k \in {} |-> 0]
    /\ now = 0
    /\ device_channel = << >>
    /\ emitted = [m \in HostMacs |-> 0]
    /\ selected_interface = None
    /\ scanner = "none"
    /\ error = None
    /\ sent = {}
    /\ loops = [d \in {} |-> 0]
    /\ net = [devices |-> << >>,
              network_info |-> [network_range |-> "", gateway |-> "",
                                active_devices |-> 0],
              scanning |-> FALSE,
              threads |-> << >>]
    /\ inputs = [frames |-> 0, clicks |-> 0]
    /\ commands = 0
    /\ last = Other
    /\ render = [pc |-> "idle", guards |-> {}]
    /\ killer = "running"

Next ==
    \/ Listener
    \/ Tick
    \/ BackgroundScan
    \/ KillerTick
    \/ PoisonLoopRound
    \/ UiFrame
    \/ UiSelectInterface
    \/ UiDisconnectAll
    \/ UiRestoreAll
    \/ UiSelectAll
    \/ UiToggleRow
    \/ UiDisconnectSelected
    \/ UiRestoreSelected
    \/ ScannerStart

Spec == Init /\ [][Next]_vars

\* The tick loop of Killer::start runs for the life of the process: ticks on
\* which the gateway is known and the channel opens keep being taken.
SpecLive == Init /\ [][Next]_vars /\ WF_vars(PoisonTickOk)

\* The loop of start_background_scan runs for the life of the process: a
\* tick that has a record to demote is eventually taken.
SpecMonitor == Init /\ [][Next]_vars /\ WF_vars(BackgroundScan)

\* Sweeps on command only put probe frames on the wire: they are explored
\* with the listener and the frame updates of the UI, without the clock and
\* without the poisoning and restoration inputs.
NextScan ==
    \/ UiSelectInterface
    \/ ScannerStart
    \/ Listener
    \/ UiFrame
    \/ UiScan
    \/ ScanRecv
    \/ SweepEnd

SpecScan == Init /\ [][NextScan]_vars

\* The scanner task is scheduled: a command that waits while the task is in
\* recv() is received, and a sweep that has begun comes to its end.
NextServe ==
    \/ UiSelectSmall
    \/ ScannerStart
    \/ Listener
    \/ UiFrame
    \/ UiScan
    \/ ScanRecv
    \/ SweepEnd

SpecServe == Init /\ [][NextServe]_vars /\ WF_vars(ScanRecv) /\ WF_vars(SweepEnd)

\* The poisoning tick on its own, over the registries that the listener,
\* the drain of the UI and the Disconnect All button produce.
NextKill ==
    \/ UiSelectInterface
    \/ ScannerStart
    \/ Listener
    \/ UiFrame
    \/ UiDisconnectAll
    \/ KillerTick

SpecKill == Init /\ [][NextKill]_vars

\* The listener on a network whose gateway forwards packets from outside.
NextForwarded ==
    \/ UiSelectInterface
    \/ ScannerStart
    \/ Listener
    \/ ListenerForwarded
    \/ UiFrame

SpecForwarded == Init /\ [][NextForwarded]_vars

\* The same with the interfaces that have no hardware address.
NextNoMac ==
    \/ UiSelectInterface
    \/ UiSelectNoMac
    \/ ScannerStart
    \/ Listener
    \/ UiFrame
    \/ UiDisconnectAll
    \/ KillerTick

SpecNoMac == Init /\ [][NextNoMac]_vars

\* Spec takes start() up to its command loop as one step.  The frames the
\* listener takes while the initial sweep is sent, and the detection that
\* follows the sweep, are explored here.
NextStart ==
    \/ UiSelectInterface
    \/ ScannerOpen
    \/ Listener
    \/ UiFrame
    \/ InitialProbe

SpecStart == Init /\ [][NextStart]_vars

\* Spec takes every access to the registry as one step that is always
\* granted.  The guards the rendering pass takes are explored here, with the
\* listener and the clock.
NextRender ==
    \/ UiSelectInterface
    \/ ScannerStart
    \/ ListenerFree
    \/ Tick
    \/ RenderFrame

SpecRender == Init /\ [][NextRender]_vars

\* The nmap-based device list of network.rs shares no state with the rest:
\* its operations are explored on their own.
NextNet ==
    \/ ScanNetwork
    \/ ScanSetFlag
    \/ ScanRun
    \/ ScanStore
    \/ ScanClearFlag

SpecNet == Init /\ [][NextNet]_vars

(***************************************************************************)
(* Properties.                                                             *)
(***************************************************************************)

\* C1: the registry holds at most one record per device identity (MAC
\* address): two keys whose records carry the same mac_address are the same
\* key.
C1_OneRecordPerIdentity ==
    \A k1 \in DOMAIN devices, k2 \in DOMAIN devices :
        devices[k1].mac_address = devices[k2].mac_address => k1 = k2

\* C2: for every hardware address, the listener has sent exactly one
\* new-device event if the address has a record, and none otherwise, however
\* many frames it has attributed to that address.
C2_OneEventPerIdentity ==
    \A m \in HostMacs :
        emitted[m] = IF MacToString(m) \in DOMAIN devices THEN 1 ELSE 0

C2_Witness ==
    /\ last.op = "listener"
    /\ ~last.created
    /\ \E m \in HostMacs : last.key = MacToString(m) /\ emitted[m] = 1

\* C3: no step removes a record: every key of the registry stays a key, and
\* every address in the device list of network.rs stays in the list.
C3_NoRecordRemoved ==
    [][ /\ DOMAIN devices \subseteq DOMAIN devices'
        /\ \A i \in DOMAIN net.devices :
              \E j \in DOMAIN net.devices' :
                  net.devices'[j].ip_address = net.devices[i].ip_address ]_vars

\* C4: a tick of the liveness monitor never sets the status of a killed
\* record to Inactive.
C4_MonitorSparesKilled ==
    [][ BackgroundScan =>
          \A k \in DOMAIN devices :
              (devices[k].is_killed /\ devices[k].status # "Inactive")
                  => devices'[k].status # "Inactive" ]_vars

\* C5: after the listener has observed a frame from a key already in the
\* registry, that record is Active, its last_arp_time is the time of the
\* observation and its ip_address is the observed address.
C5_ObservationResurrects ==
    (last.op = "listener" /\ ~last.created) =>
        /\ devices[last.key].status = "Active"
        /\ devices[last.key].last_arp_time = Some(now)
        /\ devices[last.key].ip_address = IpToString(last.ip)

C5_Witness ==
    /\ last.op = "listener"
    /\ ~last.created
    /\ last.prior = "Inactive"
    /\ devices[last.key].status = "Active"

\* C6: the record the listener has just created for an unknown key is
\* Active, not selected, not killed, and has a last_arp_time.
C6_CreatedRecord ==
    (last.op = "listener" /\ last.created) =>
        /\ devices[last.key].status = "Active"
        /\ devices[last.key].selected = FALSE
        /\ devices[last.key].is_killed = FALSE
        /\ IsSome(devices[last.key].last_arp_time)

C6_Witness ==
    /\ last.op = "listener"
    /\ last.created
    /\ last.key \in DOMAIN devices

\* C7: a step of the listener, of the liveness monitor, of the poisoning
\* tick or of a poisoning thread leaves the selected and is_killed flags of
\* every record of the registry as they were.
C7_CoreKeepsFlags ==
    [][ \/ \A k \in DOMAIN devices :
              /\ devices'[k].selected = devices[k].selected
              /\ devices'[k].is_killed = devices[k].is_killed
        \/ ~(Listener \/ BackgroundScan \/ KillerTick \/ PoisonLoopRound) ]_vars

C7_Witness ==
    /\ last.op = "listener"
    /\ ~last.created
    /\ devices[last.key].selected
    /\ devices[last.key].is_killed

\* C8: a record's status is Blocked exactly when its is_killed flag is set.
C8_BlockedIffKilled ==
    \A k \in DOMAIN devices :
        (devices[k].status = "Blocked") <=> devices[k].is_killed

\* C9: every frame the poisoning tick sends to a victim is an ARP reply
\* whose sender hardware address is the interface's, whose sender protocol
\* address is the gateway's, and whose target is the victim's hardware and
\* protocol address.
C9_VictimFrame ==
    \A f \in sent :
        (f.by = "killer" /\ f.call = "poison_target") =>
            /\ f.frame.operation = "Reply"
            /\ f.frame.sender_hw_addr = Unwrap(Unwrap(selected_interface).mac)
            /\ f.frame.sender_proto_addr = Gateway.ip
            /\ Some(f.frame.target_hw_addr) = ParseMac(devices[f.key].mac_address)
            /\ Some(f.frame.target_proto_addr) = ParseIpv4(devices[f.key].ip_address)

\* C10: every frame the poisoning tick sends to the gateway is an ARP reply
\* whose sender protocol address is the victim's, whose sender hardware
\* address is the interface's, and whose target is the gateway's hardware
\* and protocol address.
C10_GatewayFrame ==
    \A f \in sent :
        (f.by = "killer" /\ f.call = "poison_gateway") =>
            /\ f.frame.operation = "Reply"
            /\ Some(f.frame.sender_proto_addr) = ParseIpv4(devices[f.key].ip_address)
            /\ f.frame.sender_hw_addr = Unwrap(Unwrap(selected_interface).mac)
            /\ f.frame.target_hw_addr = Gateway.mac
            /\ f.frame.target_proto_addr = Gateway.ip

\* The keys a record can have: the string of a hardware address, or a parsed
\* IPv4 address.
RegistryKeys ==
    {MacToString(m) : m \in HostMacs}
        \cup {Unwrap(ParseIpKey(IpToString(a[2]))) : a \in Observable}

\* The step just taken was a poisoning tick that sent both forged replies
\* for the record under key k.
KillerPair(k) ==
    /\ \E f \in sent : f.by = "killer" /\ f.key = k /\ f.call = "poison_target"
    /\ \E f \in sent : f.by = "killer" /\ f.key = k /\ f.call = "poison_gateway"

\* C11 as stated: every poisoning tick taken while an interface is selected
\* sends both forged replies for every record whose is_killed flag is set.
C11_EveryTickSends ==
    [][ \/ ~KillerTick
        \/ ~IsSome(selected_interface)
        \/ \A k \in Killed(devices) : KillerPair(k)' ]_vars

\* C11: while an interface is selected and a record's is_killed flag stays
\* set, the forged pair for that record is sent again and again, provided
\* ticks on which the gateway is known and the channel opens keep occurring.
C11_PoisonRepeats ==
    \A k \in RegistryKeys :
        <>[](/\ IsSome(selected_interface)
             /\ k \in DOMAIN devices
             /\ devices[k].is_killed)
            => []<>KillerPair(k)

C11_Witness ==
    \E k \in DOMAIN devices :
        /\ devices[k].is_killed
        /\ KillerPair(k)

\* A frame of a poisoning round, from the tick loop or from a thread.
Forged(f) == f.call \in {"poison_target", "poison_gateway"}

\* C12: in the step that follows a restoration (Restore Selected or Restore
\* All), no forged reply is sent for a device whose record was restored.
C12_RestoredStaysQuiet ==
    [][ last.op \in {"restore", "restore_all"} =>
          \A f \in sent' :
              Forged(f) =>
                  devices[f.key].mac_address
                      \notin {devices[k].mac_address : k \in last.key} ]_vars

\* The step just taken sent both corrective replies for the record under
\* key k.
RestorePair(k) ==
    /\ \E f \in sent : f.by = "restore" /\ f.key = k /\ f.call = "restore_target"
    /\ \E f \in sent : f.by = "restore" /\ f.key = k /\ f.call = "restore_gateway"

\* C13: a step that clears the is_killed flag of a record, or restores it
\* through Restore Selected, sends both corrective replies for that record.
C13_UnkillSendsCorrection ==
    [][ \A k \in DOMAIN devices :
          (\/ devices[k].is_killed /\ ~devices'[k].is_killed
           \/ last'.op = "restore" /\ k \in last'.key)
              => RestorePair(k)' ]_vars

\* C14: the corrective reply to the victim announces the gateway's IP at the
\* gateway's hardware address, and the corrective reply to the gateway
\* announces the victim's IP at the victim's registered hardware address.
C14_TruePairings ==
    \A f \in sent :
        /\ f.call = "restore_target" =>
              /\ f.frame.sender_proto_addr = Gateway.ip
              /\ f.frame.sender_hw_addr = Gateway.mac
              /\ Some(f.frame.target_hw_addr) = ParseMac(devices[f.key].mac_address)
        /\ f.call = "restore_gateway" =>
              /\ Some(f.frame.sender_proto_addr) = ParseIpv4(devices[f.key].ip_address)
              /\ Some(f.frame.sender_hw_addr) = ParseMac(devices[f.key].mac_address)
              /\ f.frame.target_hw_addr = Gateway.mac

\* C15: restore_target returns Ok only when the hardware address it uses
\* for the gateway is the gateway's: with that address unknown it returns an
\* error.
C15_UnknownMacIsError ==
    last.op = "restore" =>
        \A k \in last.key :
            last.results[k] = "Ok" => GetMacForIp(Some(Gateway.ip)) = Some(Gateway.mac)

\* The probe frames the step just taken has sent.
ProbeFrames == {f \in sent : f.by = "probe"}

\* A sweep has just run to its end.
SweepCompleted == scanner = "idle" /\ ProbeFrames # {}

\* The host addresses of the interface's /24 network other than its own:
\* .1 to .254.
Candidates ==
    LET own == Unwrap(Unwrap(selected_interface).ipv4)
        network == own - (own % 256)
    IN  {network + h : h \in 1..254} \ {own}

\* C16: the addresses that receive an ARP request in one completed sweep
\* from an interface on a /24 network are exactly the host addresses .1 to
\* .254 without the interface's own.
C16_SweepTargets ==
    (SweepCompleted /\ Unwrap(selected_interface).prefix = 24) =>
        {f.frame.target_proto_addr : f \in {g \in ProbeFrames : g.call = "arp_request"}}
            = Candidates

\* The address a probe frame is sent to.
ProbedAddress(f) ==
    IF f.call = "arp_request" THEN f.frame.target_proto_addr
    ELSE f.frame.ip_destination

\* C17: in one completed sweep every candidate address receives exactly one
\* ARP request, and no probe of any kind goes to the interface's own address.
C17_OneRequestEach ==
    SweepCompleted =>
        /\ \A a \in Candidates :
              Cardinality({f \in ProbeFrames :
                             f.call = "arp_request" /\ ProbedAddress(f) = a}) = 1
        /\ \A f \in ProbeFrames :
              ProbedAddress(f) # Unwrap(Unwrap(selected_interface).ipv4)

C17_Witness ==
    /\ SweepCompleted
    /\ \E f \in ProbeFrames : f.call = "tcp_syn" /\ ProbedAddress(f) = Host.ip
    /\ \E f \in ProbeFrames : f.call = "arp_request" /\ ProbedAddress(f) = Gateway.ip

\* C18: at most one scan of scan_network is in progress, that is, between
\* the setting and the clearing of the scanning flag, at any time.
C18_NoOverlap ==
    Cardinality({i \in DOMAIN net.threads :
                   net.threads[i].pc \in {"flagged", "scanned", "stored"}}) <= 1

C20_OpenFailureIsFatal ==
    scanner = "open_failed" =>
        /\ error = Some("Failed to create channel")
        /\ ~ENABLED Listener
        /\ ~ENABLED BackgroundScan
        /\ ProbeFrames = {}

C20_Witness == scanner = "open_failed" /\ IsSome(error)

\* The selected interface has no IPv4 address.
NoIpv4 ==
    /\ IsSome(selected_interface)
    /\ ~IsSome(Unwrap(selected_interface).ipv4)

\* C21: with a selected interface that has no IPv4 address, the scan never
\* succeeds, no probe frame is sent, and once the scan has been attempted the
\* error "No IPv4 address found" is in the UI's error state.
C21_NoAddressNoProbe ==
    NoIpv4 =>
        /\ ProbeFrames = {}
        /\ scanner \in {"spawned", "open_failed", "probe_failed"}
        /\ scanner = "probe_failed" => error = Some("No IPv4 address found")

C21_Witness ==
    /\ NoIpv4
    /\ scanner = "probe_failed"
    /\ error = Some("No IPv4 address found")

\* C22: a failed send of a probe frame leaves the scanner in its command
\* loop: after the failure the scanner task is waiting for the next Scan
\* command or running the sweep for one.
C22_SendFailureKeepsLoop ==
    error = Some("Failed to send packet") => scanner \in {"idle", "sweeping"}

\* C23: the UI's error state holds nothing but a failure to open the channel
\* or a missing IPv4 address.
C23_ErrorOnlyFromSetup ==
    IsSome(error) =>
        error \in {Some("Failed to create channel"), Some("No IPv4 address found")}

\* A frame too short for EthernetPacket::new, with a payload too short for
\* ArpPacket::new or Ipv4Packet::new, or of an ethertype other than ARP and
\* IPv4.
Malformed(rx) ==
    /\ rx.ok
    /\ \/ ~rx.len_ok
       \/ ~rx.payload_ok
       \/ rx.ethertype \notin {"Arp", "Ipv4"}

\* C24: the listener's step for a malformed frame or a frame of another
\* ethertype leaves the registry, the device channel and the count of events
\* sent as they were, and the listener can take the next frame afterwards.
C24_MalformedIgnored ==
    [][ \A rx \in {r \in RxResults : Malformed(r)} :
          \/ /\ devices' = devices
             /\ device_channel' = device_channel
             /\ emitted' = emitted
             /\ (ENABLED Listener)'
          \/ ~OnPacketArrival(rx) ]_vars

\* A state the listener's step for a malformed frame leaves as it finds it:
\* the listener runs, the registry holds a record and an event is in flight.
C24_Witness ==
    /\ ENABLED (\E rx \in RxResults : Malformed(rx) /\ OnPacketArrival(rx))
    /\ last = Other
    /\ sent = {}
    /\ DOMAIN devices # {}
    /\ device_channel # << >>

\* The record has been seen, and more than the timeout before t.
Unseen(device, t) ==
    /\ IsSome(device.last_arp_time)
    /\ t - Unwrap(device.last_arp_time) > TimeoutSecs

\* C25: a tick of the liveness monitor changes the status of a record only
\* to Inactive, and only if the record was last seen more than the timeout
\* before the tick.
C25_MonitorOnlyDemotes ==
    [][ \/ \A k \in DOMAIN devices :
              \/ devices'[k].status = devices[k].status
              \/ /\ devices'[k].status = "Inactive"
                 /\ Unseen(devices[k], now)
        \/ ~BackgroundScan ]_vars

\* The monitor has demoted one record and left alone another that the
\* listener has seen in the meantime.
C25_Witness ==
    /\ last.op = "monitor"
    /\ \E k1 \in DOMAIN devices, k2 \in DOMAIN devices :
          /\ devices[k1].status = "Inactive"
          /\ Unseen(devices[k1], now)
          /\ devices[k2].status = "Active"
          /\ devices[k2].last_arp_time = Some(now)

C27_DemotesOnce ==
    last.op = "monitor" => \A k \in last.key : last.prior[k] # "Inactive"

\* C28: no step sets the last_arp_time of a record to an earlier time or
\* back to none: under every key, a time once recorded is followed by a time
\* at least as late.
C28_LastSeenMonotonic ==
    [][ \A k \in DOMAIN devices :
          IsSome(devices[k].last_arp_time) =>
              /\ k \in DOMAIN devices'
              /\ IsSome(devices'[k].last_arp_time)
              /\ Unwrap(devices'[k].last_arp_time)
                     >= Unwrap(devices[k].last_arp_time) ]_vars

\* The listener has moved a record's time forward after the UI has put the
\* record of the device's event under its address key.
C28_Witness ==
    /\ last.op = "listener"
    /\ ~last.created
    /\ now > 0
    /\ devices[last.key].last_arp_time = Some(now)
    /\ \E k \in DOMAIN devices :
          /\ k[1] = "addr"
          /\ devices[k].mac_address = last.key
          /\ Unwrap(devices[k].last_arp_time) < now

\* C29: the rendering pass of a frame update is never left waiting for a
\* lock of the registry that it holds itself.
C29_FrameCompletes == render.pc # "waiting"

\* The registry and the poisoning threads after kill_selected_devices,
\* kill_all_devices and the two restore functions have run on map.
KillSelected(map, l, env) ==
    [devices |-> SetBlocked(map, KillSelectedTargets(map)),
     loops |-> SpawnLoops(l, map, KillSelectedTargets(map), env)]

KillAll(map, l, env) ==
    [devices |-> SetBlocked(map, KillAllTargets(map)),
     loops |-> SpawnLoops(l, map, KillAllTargets(map), env)]

RestoreSelected(map, env) ==
    [devices |-> SetActive(map, RestoreSelectedTargets(map)),
     sent |-> UNION {RestoreTarget(k, map[k], env) : k \in RestoreSelectedTargets(map)}]

RestoreEvery(map, env) ==
    [devices |-> SetActive(map, RestoreAllTargets(map)),
     sent |-> UNION {RestoreTarget(k, map[k], env) : k \in RestoreAllTargets(map)}]

\* C30: on every registry the program reaches, a kill applied a second time
\* changes neither the registry nor the poisoning threads, a restore applied
\* a second time changes nothing in the registry and sends nothing, and the
\* Disconnect All and Restore All buttons pressed a second time change
\* nothing.
C30_MutatorsIdempotent ==
    \A env \in Envs :
        LET ks == KillSelected(devices, loops, env)
            ka == KillAll(devices, loops, env)
            rs == RestoreSelected(devices, env)
            ra == RestoreEvery(devices, env)
        IN  /\ KillSelected(ks.devices, ks.loops, env) = ks
            /\ KillAll(ka.devices, ka.loops, env) = ka
            /\ RestoreSelected(rs.devices, env) = [devices |-> rs.devices, sent |-> {}]
            /\ RestoreEvery(ra.devices, env) = [devices |-> ra.devices, sent |-> {}]
            /\ DisconnectAll(DisconnectAll(devices)) = DisconnectAll(devices)
            /\ RestoreAll(RestoreAll(devices)) = RestoreAll(devices)

\* A kill has been applied and has started a thread, and the kill and the
\* restore both have a record to act on.
C30_Witness ==
    /\ DOMAIN loops # {}
    /\ \E k \in DOMAIN devices : devices[k].selected /\ devices[k].status = "Blocked"
    /\ \E k \in DOMAIN devices : devices[k].selected /\ devices[k].status # "Blocked"

\* The ARP requests the step just taken has sent.
ArpRequests == {f \in ProbeFrames : f.call = "arp_request"}

\* C31: for every ARP request a sweep sends, the octets send_arp_request
\* builds from the frame's source hardware address, source address and
\* target address decode, in the listener, to that source hardware address
\* and that source address.
C31_RequestRoundTrip ==
    \A f \in ArpRequests :
        LET rx == Decode(ArpRequestPacket(f.frame.sender_hw_addr,
                                          f.frame.sender_proto_addr,
                                          f.frame.target_proto_addr))
        IN  /\ rx.source = f.frame.sender_hw_addr
            /\ SourceIp(rx) = Some(f.frame.sender_proto_addr)

C31_Witness ==
    /\ \E f \in ArpRequests : f.frame.target_proto_addr = Host.ip
    /\ \E f \in ArpRequests : f.frame.target_proto_addr = 255
    /\ \A f \in ArpRequests : Len(ArpRequestPacket(f.frame.sender_hw_addr,
                                                   f.frame.sender_proto_addr,
                                                   f.frame.target_proto_addr)) = 42

\* The addresses the registry holds for the gateway's hardware address.
GatewayClaims ==
    {devices[k].ip_address :
        k \in {e \in DOMAIN devices : devices[e].mac_address = MacToString(Gateway.mac)}}

\* C32: the proxy-ARP warning is sent only when the registry holds more than
\* one address for the gateway's hardware address.
C32_WarningOnlyForProxy ==
    (last.op = "proxy_arp" /\ last.warned) => Cardinality(GatewayClaims) > 1

\* The call of spoof_target for the record under key k reaches its sends.
SpoofReaches(k, gateway, opens) ==
    /\ IsSome(selected_interface)
    /\ IsSome(Unwrap(selected_interface).ipv4)
    /\ IsSome(gateway)
    /\ IsSome(ParseIpv4(devices[k].ip_address))
    /\ IsSome(ParseMac(devices[k].mac_address))
    /\ opens[k]

\* C33: in a poisoning tick, every killed record whose own call of
\* spoof_target reaches its sends gets both forged replies, whatever happens
\* in the calls for the other killed records; the reply to the gateway goes
\* to the zero hardware address when the gateway's is not resolved; and the
\* next tick can be taken.
C33_TickAttemptsEveryRecord ==
    [][ \/ Killed(devices) = {}
        \/ << devices, now, scanner, device_channel, inputs, loops, last >>'
               # << devices, now, scanner, device_channel, inputs, loops, Other >>
        \/ \E f \in sent' : f.by # "killer"
        \/ \A gateway \in {None, Some(GatewayIp)},
              opens \in [Killed(devices) -> BOOLEAN] :
              \/ ~SpoofTargets(gateway, opens)
              \/ /\ \A k \in Killed(devices) :
                        SpoofReaches(k, gateway, opens) => KillerPair(k)'
                 /\ \A f \in sent' :
                        (f.by = "killer" /\ f.call = "poison_gateway")
                            => f.frame.target_hw_addr = MacZero
                 /\ (ENABLED KillerTick)' ]_vars

\* A tick has sent the pair for one killed record although the call for
\* another killed record did not reach its sends.
C33_Witness ==
    /\ \E f \in sent : f.by = "killer"
    /\ \E k1 \in Killed(devices), k2 \in Killed(devices) :
          KillerPair(k1) /\ ~KillerPair(k2)

\* C34: the poisoning loop never panics: with no interface selected or with
\* a selected interface that has no hardware address the tick ends without
\* sending and the task that runs the loop stays alive.
C34_TickNeverPanics == killer # "panicked"

\* C35: every Scan command sent to a started scanner is served: a command
\* leaves the channel only one at a time and by starting a sweep, a sweep
\* whose sends succeed puts every probe on the wire and returns the task to
\* waiting, and as long as no send fails every waiting command is received.
C35_ScanCommandsServed ==
    /\ [][ commands' < commands =>
              /\ commands' = commands - 1
              /\ scanner = "idle"
              /\ scanner' = "sweeping" ]_vars
    /\ [][ (scanner = "sweeping" /\ scanner' = "idle") =>
              sent' = ProbeDevices(Unwrap(selected_interface), 0).frames ]_vars
    /\ \A n \in 1..MaxClicks :
           (commands = n /\ scanner \in {"idle", "sweeping"})
               ~> (commands < n \/ scanner = "scan_failed")

C35_Witness ==
    /\ inputs.clicks = 2
    /\ commands = 0
    /\ scanner = "idle"
    /\ sent # {}
    /\ sent = ProbeDevices(Unwrap(selected_interface), 0).frames

\* The addresses of the network of the interface's IPv4 address.
LocalSubnet(interface) ==
    LET size == 2 ^ (32 - interface.prefix)
        network == Unwrap(interface.ipv4) - (Unwrap(interface.ipv4) % size)
    IN  network .. (network + size - 1)

\* C36: the ip_address of every record of the registry lies inside the
\* IPv4 network of the selected interface, whatever ARP and IPv4 frames
\* have arrived.
C36_RecordsInLocalSubnet ==
    (IsSome(selected_interface) /\ IsSome(Unwrap(selected_interface).ipv4)) =>
        \A k \in DOMAIN devices :
            /\ IsSome(ParseIpv4(devices[k].ip_address))
            /\ Unwrap(ParseIpv4(devices[k].ip_address))
                   \in LocalSubnet(Unwrap(selected_interface))

\* C37: at most one poison_target thread exists for a device, after any
\* sequence of kill, restore and inbound-observation steps.
C37_OneLoopPerDevice ==
    \A d \in DOMAIN loops :
        /\ loops[d] <= 1
        /\ \A e \in DOMAIN loops : e.target_mac = d.target_mac => e = d

\* C38: a frame of the UI that only drains new-device events leaves the
\* selected and is_killed flags of every record that is already in the
\* registry as they were.
C38_DrainKeepsFlags ==
    [][ UiFrame =>
          \A k \in DOMAIN devices :
              /\ devices'[k].selected = devices[k].selected
              /\ devices'[k].is_killed = devices[k].is_killed ]_vars

\* C39: no forged reply has the default gateway or this host as its
\* victim: the reply sent to the victim is not addressed to the gateway's or
\* to the interface's own hardware address, and the reply sent about the
\* victim does not name the gateway's or the interface's own IP address.
C39_NeverPoisonsGatewayOrSelf ==
    \A f \in sent :
        /\ f.call = "poison_target" =>
              f.frame.destination \notin {Gateway.mac, f.frame.source}
        /\ f.call = "poison_gateway" =>
              f.frame.target_proto_addr \notin {Gateway.ip, f.frame.sender_proto_addr}

\* What run_nmap_scan returns when the nmap command cannot be executed.
ExecFailed == RunNmapScan([exec_ok |-> FALSE, up |-> << >>])

\* C40: the thread of a scan whose nmap command could not be executed leaves
\* the device list and network_info as they were when it stores its result,
\* and the scanning flag is false once it has cleared it.
C40_FailedScanChangesNothing ==
    [][ \A i \in DOMAIN net.threads :
          net.threads[i].result = ExecFailed =>
              /\ (net.threads[i].pc = "scanned" /\ net'.threads[i].pc = "stored") =>
                    /\ net'.devices = net.devices
                    /\ net'.network_info = net.network_info
              /\ (net.threads[i].pc = "stored" /\ net'.threads[i].pc = "done") =>
                    ~net'.scanning ]_vars

====
